---- MODULE Spec2Model ----
(***************************************************************************)
(* Model of the Online Retail dashboards (Test.py and mainApp.py).         *)
(*                                                                         *)
(* Strings are sequences of one-character strings, so that strip, lower,   *)
(* upper, split and the pattern search are computed character by character *)
(* as Python and pandas compute them.  None (Python) and NaN (pandas) are  *)
(* the model values None and NaN.                                          *)
(***************************************************************************)
EXTENDS Integers, Sequences, FiniteSets, TLC

VARIABLES pc,                \* "start" before the run, "done" after it
          month_name,        \* Test.py: the argument of month_name_to_number
          month_number,      \* Test.py: what month_name_to_number returned
          df,                \* the dataframe load_data() returned
          prod_query,        \* Test.py: the product description query
          selected_months,   \* Test.py: the months picked in the multiselect
          query,             \* mainApp.py: the natural language query
          date_filter,       \* mainApp.py: None or (last_month_start, last_month_end)
          country_filter,    \* mainApp.py: None or the captured country
          df_filtered,       \* the filtered view of the run
          sales_data         \* Test.py: the grouped sums of the run

vars == <<pc, month_name, month_number, df, prod_query, selected_months,
          query, date_filter, country_filter, df_filtered, sales_data>>

\* Python's None: an optional value is <<>> or <<value>>
None == <<>>

Some(x) == <<x>>

\* a missing Description (no description is a one-element sequence of this)
NaN == <<"NaN">>

\* what a call gives back: the rows it returns, or that it raised
Returned(rows) == [raised |-> FALSE, rows |-> rows]

Raised == [raised |-> TRUE, rows |-> <<>>]

-----------------------------------------------------------------------------
(* Python str primitives                                                   *)

UpperLetters ==
  <<"A","B","C","D","E","F","G","H","I","J","K","L","M",
    "N","O","P","Q","R","S","T","U","V","W","X","Y","Z">>

LowerLetters ==
  <<"a","b","c","d","e","f","g","h","i","j","k","l","m",
    "n","o","p","q","r","s","t","u","v","w","x","y","z">>

Digits == <<"0","1","2","3","4","5","6","7","8","9">>

IndexOf(c, table) == CHOOSE i \in 1..Len(table) : table[i] = c

InTable(c, table) == \E i \in 1..Len(table) : table[i] = c

\* str.lower() on one character
LowerChar(c) == IF InTable(c, UpperLetters) THEN LowerLetters[IndexOf(c, UpperLetters)] ELSE c

\* str.upper() on one character
UpperChar(c) == IF InTable(c, LowerLetters) THEN UpperLetters[IndexOf(c, LowerLetters)] ELSE c

lower(s) == [i \in 1..Len(s) |-> LowerChar(s[i])]

upper(s) == [i \in 1..Len(s) |-> UpperChar(s[i])]

\* the characters \s and str.strip() treat as whitespace
IsSpace(c) == c = " "

\* str.strip(): drop the leading and the trailing whitespace
strip(s) ==
  LET keep == {i \in 1..Len(s) : ~IsSpace(s[i])}
      Min(S) == CHOOSE x \in S : \A y \in S : x <= y
      Max(S) == CHOOSE x \in S : \A y \in S : x >= y
  IN  IF keep = {} THEN <<>> ELSE SubSeq(s, Min(keep), Max(keep))

\* s[i:i+len(p)] == p
MatchAt(s, i, p) ==
  /\ i >= 1
  /\ i + Len(p) - 1 <= Len(s)
  /\ \A j \in 1..Len(p) : s[i + j - 1] = p[j]

RECURSIVE Concat(_)
\* "".join(parts)
Concat(parts) == IF parts = <<>> THEN <<>> ELSE Head(parts) \o Concat(Tail(parts))

-----------------------------------------------------------------------------
(* calendar.month_name / calendar.month_abbr                               *)

calendar_month_name ==
  << <<"J","a","n","u","a","r","y">>,
     <<"F","e","b","r","u","a","r","y">>,
     <<"M","a","r","c","h">>,
     <<"A","p","r","i","l">>,
     <<"M","a","y">>,
     <<"J","u","n","e">>,
     <<"J","u","l","y">>,
     <<"A","u","g","u","s","t">>,
     <<"S","e","p","t","e","m","b","e","r">>,
     <<"O","c","t","o","b","e","r">>,
     <<"N","o","v","e","m","b","e","r">>,
     <<"D","e","c","e","m","b","e","r">> >>

\* the locale's abbreviation is the first three letters of the name
calendar_month_abbr == [i \in 1..12 |-> SubSeq(calendar_month_name[i], 1, 3)]

\* a variant that also accepts a decimal month number
DecimalOf(n) == IF n < 10 THEN <<Digits[n + 1]>> ELSE <<Digits[(n \div 10) + 1], Digits[(n % 10) + 1]>>

month_name_to_number_digits(name) ==
  LET m == lower(strip(name))
      hits == {i \in 1..12 : \/ m = lower(calendar_month_name[i])
                             \/ m = lower(calendar_month_abbr[i])
                             \/ m = DecimalOf(i)}
  IN  IF hits = {} THEN None ELSE Some(CHOOSE i \in hits : \A j \in hits : i <= j)

\* Test.py month_name_to_number: the first i in 1..12 whose name or
\* abbreviation equals the stripped, lower-cased argument, else None
month_name_to_number(name) ==
  LET m == lower(strip(name))
      hits == {i \in 1..12 : \/ m = lower(calendar_month_name[i])
                             \/ m = lower(calendar_month_abbr[i])}
  IN  IF hits = {} THEN None ELSE Some(CHOOSE i \in hits : \A j \in hits : i <= j)

-----------------------------------------------------------------------------
(* re.split(r'\s+(AND|OR|NOT)\s+', query)                                  *)

AND == <<"A","N","D">>
OR == <<"O","R">>
NOT == <<"N","O","T">>

\* the alternation (AND|OR|NOT), tried in this order
Operators == <<AND, OR, NOT>>

\* the first index at or after i that does not hold whitespace (\s+ is greedy)
RunEnd(s, i) ==
  LET stops == {j \in i..(Len(s) + 1) : j = Len(s) + 1 \/ ~IsSpace(s[j])}
  IN  CHOOSE j \in stops : \A k \in stops : j <= k

\* the alternatives of (AND|OR|NOT) that match at j and are followed by whitespace
OperatorsAt(s, j) ==
  {n \in 1..Len(Operators) :
      /\ MatchAt(s, j, Operators[n])
      /\ j + Len(Operators[n]) <= Len(s)
      /\ IsSpace(s[j + Len(Operators[n])])}

\* whether the pattern matches with its first character at i
SeparatorAt(s, i) == IsSpace(s[i]) /\ OperatorsAt(s, RunEnd(s, i)) # {}

RECURSIVE re_split(_)
\* the text before the leftmost match, the captured operator, and the split
\* of what follows the match
re_split(s) ==
  LET starts == {i \in 1..Len(s) : SeparatorAt(s, i)}
  IN  IF starts = {} THEN <<s>>
      ELSE LET i == CHOOSE x \in starts : \A y \in starts : x <= y
               j == RunEnd(s, i)
               n == CHOOSE x \in OperatorsAt(s, j) : \A y \in OperatorsAt(s, j) : x <= y
               k == RunEnd(s, j + Len(Operators[n]))
           IN  <<SubSeq(s, 1, i - 1), Operators[n]>> \o re_split(SubSeq(s, k, Len(s)))

RECURSIVE str_split(_, _)
\* str.split(sep): cut at every occurrence of sep, left to right
str_split(s, sep) ==
  LET hits == {i \in 1..Len(s) : MatchAt(s, i, sep)}
  IN  IF hits = {} THEN <<s>>
      ELSE LET i == CHOOSE x \in hits : \A y \in hits : x <= y
           IN  <<SubSeq(s, 1, i - 1)>> \o str_split(SubSeq(s, i + Len(sep), Len(s)), sep)

\* [token.strip() for token in tokens if token.strip()]
StripTokens(tokens) ==
  LET stripped == [i \in 1..Len(tokens) |-> strip(tokens[i])]
  IN  SelectSeq(stripped, LAMBDA t : t # <<>>)

-----------------------------------------------------------------------------
(* Series.str.contains(pat, na=False): pat is a regular expression         *)

\* re.compile(pat) fails on a group that is opened and never closed
Compiles(pat) == \A i \in 1..Len(pat) : pat[i] # "("

\* one pattern character against one subject character: "." is any character
CharMatches(p, c) == p = "." \/ p = c

\* a search in which the empty pattern matches nothing
SearchNonEmpty(pat, s) ==
  /\ pat # <<>>
  /\ \E i \in 1..(Len(s) + 1) :
        /\ i + Len(pat) - 1 <= Len(s)
        /\ \A j \in 1..Len(pat) : CharMatches(pat[j], s[i + j - 1])

\* re.search(pat, s) is not None
Search(pat, s) ==
  \E i \in 1..(Len(s) + 1) :
     /\ i + Len(pat) - 1 <= Len(s)
     /\ \A j \in 1..Len(pat) : CharMatches(pat[j], s[i + j - 1])

\* df['Description'].str.upper().str.contains(pat, na=False) for one row
contains(row, pat) ==
  IF row.Description = NaN THEN FALSE ELSE Search(pat, upper(row.Description))

-----------------------------------------------------------------------------
(* Test.py filter_descriptions                                             *)

IsOperator(token) == token \in {AND, OR, NOT}

InTokens(op, tokens) == \E i \in 1..Len(tokens) : tokens[i] = op

\* [token for token in tokens if token not in ["AND", "OR", "NOT"]]
Keywords(tokens) == SelectSeq(tokens, LAMBDA t : ~IsOperator(t))

AllCompile(pats) == \A i \in 1..Len(pats) : Compiles(pats[i])

\* parts = query.split("NOT"); parts[0].strip()
IncludePart(q) == strip(str_split(q, NOT)[1])

\* parts[1].strip() if len(parts) > 1 else ""
ExcludePart(q) ==
  LET parts == str_split(q, NOT)
  IN  IF Len(parts) > 1 THEN strip(parts[2]) ELSE <<>>

\* ExcludePart when the query is cut once only, query.split("NOT", 1)
C2_ExcludeRest(q) ==
  LET hits == {i \in 1..Len(q) : MatchAt(q, i, NOT)}
  IN  IF hits = {} THEN <<>>
      ELSE LET i == CHOOSE x \in hits : \A y \in hits : x <= y
           IN  strip(SubSeq(q, i + Len(NOT), Len(q)))

\* the branches with OR tested before AND
BranchOrFirst(tokens) ==
  IF Len(tokens) = 1 THEN "simple"
  ELSE IF InTokens(OR, tokens) THEN "or"
  ELSE IF InTokens(AND, tokens) THEN "and"
  ELSE IF InTokens(NOT, tokens) THEN "not"
  ELSE "fallback"

\* the branch taken, in the order of the if statements
Branch(tokens) ==
  IF Len(tokens) = 1 THEN "simple"
  ELSE IF InTokens(AND, tokens) THEN "and"
  ELSE IF InTokens(OR, tokens) THEN "or"
  ELSE IF InTokens(NOT, tokens) THEN "not"
  ELSE "fallback"

Tokens(q) == StripTokens(re_split(upper(q)))

\* a fallback that keeps only the rows that have a description
FallbackNotNull(rows) == SelectSeq(rows, LAMBDA r : r.Description # NaN)

\* the rows the fallback returns: the dataframe unfiltered
Fallback(rows) == rows

\* filter_descriptions(df, query): the rows kept, or Raised when a
\* str.contains call cannot compile its pattern
filter_descriptions(rows, q) ==
  LET uq == upper(q)
      tokens == Tokens(q)
      kws == Keywords(tokens)
      b == Branch(tokens)
  IN  CASE b = "simple" ->
             IF ~Compiles(tokens[1]) THEN Raised
             ELSE Returned(SelectSeq(rows, LAMBDA r : contains(r, tokens[1])))
        [] b = "and" ->
             IF ~AllCompile(kws) THEN Raised
             ELSE Returned(SelectSeq(rows, LAMBDA r : \A i \in 1..Len(kws) : contains(r, kws[i])))
        [] b = "or" ->
             IF ~AllCompile(kws) THEN Raised
             ELSE Returned(SelectSeq(rows, LAMBDA r : \E i \in 1..Len(kws) : contains(r, kws[i])))
        [] b = "not" ->
             IF ~Compiles(IncludePart(uq)) \/ ~Compiles(ExcludePart(uq)) THEN Raised
             ELSE Returned(SelectSeq(rows, LAMBDA r : contains(r, IncludePart(uq))
                                                       /\ ~contains(r, ExcludePart(uq))))
        [] OTHER -> Returned(Fallback(rows))

-----------------------------------------------------------------------------
(* Bounds                                                                  *)

\* leading and trailing blanks around a month token
MaxPad == 1
\* digits in a numeric month token
MaxDigits == 2
\* pieces a product query is made of
MaxPieces == 4

-----------------------------------------------------------------------------
(* month_name_to_number applied to month tokens                            *)

Pad(n) == [i \in 1..n |-> " "]

DigitChars == {Digits[i] : i \in 1..Len(Digits)}

DigitStrings == UNION {[1..n -> DigitChars] : n \in 1..MaxDigits}

MonthWords ==
  LET names == {calendar_month_name[i] : i \in 1..12} \cup {calendar_month_abbr[i] : i \in 1..12}
  IN  names \cup {lower(w) : w \in names} \cup {upper(w) : w \in names}
            \cup {<<>>, <<"M","a","r","c">>, <<"S","e","p","t">>, <<"m","a","r","3">>}

MonthTokens ==
  {Pad(a) \o w \o Pad(b) : a \in 0..MaxPad, b \in 0..MaxPad, w \in MonthWords \cup DigitStrings}

\* str.isdigit() of the stripped token
C1_IsDigits(s) == s # <<>> /\ \A i \in 1..Len(s) : s[i] \in DigitChars

RECURSIVE C1_IntOf(_)
\* int(s) of a string of digits
C1_IntOf(s) == IF s = <<>> THEN 0 ELSE 10 * C1_IntOf(SubSeq(s, 1, Len(s) - 1)) + (IndexOf(s[Len(s)], Digits) - 1)

NoData == <<>>

InitResolve ==
  /\ pc = "start"
  /\ month_name \in MonthTokens
  /\ month_number = None
  /\ df = NoData
  /\ prod_query = <<>>
  /\ selected_months = <<>>
  /\ query = <<>>
  /\ date_filter = None
  /\ country_filter = None
  /\ df_filtered = Returned(NoData)
  /\ sales_data = <<>>

\* one call month_name_to_number(month_name)
Resolve ==
  /\ pc = "start"
  /\ pc' = "done"
  /\ month_number' = month_name_to_number(month_name)
  /\ UNCHANGED <<month_name, df, prod_query, selected_months, query, date_filter,
                 country_filter, df_filtered, sales_data>>

SpecResolve == InitResolve /\ [][Resolve]_vars

-----------------------------------------------------------------------------
(* load_data: the rows of the dataframe                                    *)

Timestamp(y, m, d, sec) == [year |-> y, month |-> m, day |-> d, second |-> sec]

\* one row; TotalPrice = Quantity * UnitPrice (prices in pence)
Row(date, desc, country, quantity, price) ==
  [InvoiceDate |-> date, Description |-> desc, Country |-> country,
   Quantity |-> quantity, UnitPrice |-> price, TotalPrice |-> quantity * price]

UK == <<"U","K">>

-----------------------------------------------------------------------------
(* filter_descriptions applied to product queries                          *)

QueryPieces ==
  << <<"a">>, <<"B">>, <<".">>, <<"(">>, <<" ">>, NOT,
     <<" ","N","O","T"," ">>, <<" ","A","N","D"," ">>, <<" ","o","r"," ">> >>

\* every query made of at most MaxPieces pieces
Queries ==
  UNION {{Concat([i \in 1..n |-> QueryPieces[f[i]]]) : f \in [1..n -> 1..Len(QueryPieces)]} :
            n \in 0..MaxPieces}

Descriptions ==
  << NaN, <<>>, <<"A">>, <<"b">>, <<"A"," ","B">>, <<"r","e","d"," ","a","n","d">>,
     <<"N","O","T"," ","A">> >>

DescriptionData ==
  [i \in 1..Len(Descriptions) |->
      Row(Timestamp(2011, 12, 9, 0), Descriptions[i], UK, i, 5)]

InitFilter ==
  /\ pc = "start"
  /\ month_name = <<>>
  /\ month_number = None
  /\ df = DescriptionData
  /\ prod_query \in Queries
  /\ selected_months = <<>>
  /\ query = <<>>
  /\ date_filter = None
  /\ country_filter = None
  /\ df_filtered = Returned(NoData)
  /\ sales_data = <<>>

\* one call filter_descriptions(df, prod_query)
FilterDescriptions ==
  /\ pc = "start"
  /\ pc' = "done"
  /\ df_filtered' = filter_descriptions(df, prod_query)
  /\ UNCHANGED <<month_name, month_number, df, prod_query, selected_months, query,
                 date_filter, country_filter, sales_data>>

SpecFilter == InitFilter /\ [][FilterDescriptions]_vars

C4_HasNaN(rows) == \E i \in 1..Len(rows) : rows[i].Description = NaN

\* C8: the empty query returns every row of the input, whatever its
\* description (missing and empty descriptions included).
C8_EmptyQueryReturnsAll ==
  pc = "done" /\ prod_query = <<>> => df_filtered = Returned(df)

\* the empty query was run on rows with a missing and with an empty description
C8_Witness ==
  /\ pc = "done"
  /\ prod_query = <<>>
  /\ C4_HasNaN(df_filtered.rows)
  /\ \E i \in 1..Len(df_filtered.rows) : df_filtered.rows[i].Description = <<>>

\* C5 as stated: filter_descriptions never raises, whatever the query.
C5_NeverRaises ==
  pc = "done" => ~df_filtered.raised

\* C4 as stated: for a non-empty query no row with a missing description is
\* in the result.
C4_NullNeverKept ==
  pc = "done" /\ prod_query # <<>> => ~C4_HasNaN(df_filtered.rows)

\* C2 as stated: when NOT governs, the rows kept are those that contain the
\* text before the first NOT and do not contain everything after it.
C2_NotSplitsAtFirst ==
  LET uq == upper(prod_query)
  IN  pc = "done" /\ Branch(Tokens(prod_query)) = "not" /\ ~df_filtered.raised =>
        df_filtered.rows =
           SelectSeq(df, LAMBDA r : contains(r, IncludePart(uq)) /\ ~contains(r, C2_ExcludeRest(uq)))

\* the rule C3 gives for a list of tokens
C3_Rule(tokens) ==
  LET kws == Keywords(tokens)
  IN  /\ InTokens(AND, tokens) =>
           df_filtered.rows = SelectSeq(df, LAMBDA r : \A i \in 1..Len(kws) : contains(r, kws[i]))
      /\ ~InTokens(AND, tokens) /\ InTokens(OR, tokens) =>
           df_filtered.rows = SelectSeq(df, LAMBDA r : \E i \in 1..Len(kws) : contains(r, kws[i]))
      /\ Branch(tokens) = "not" => ~InTokens(AND, tokens) /\ ~InTokens(OR, tokens)

C10_KeywordThenNot(q) ==
  LET raw == re_split(upper(q))
  IN  /\ Len(raw) = 3
      /\ raw[2] = NOT
      /\ strip(raw[1]) # <<>>
      /\ strip(raw[3]) = <<>>

-----------------------------------------------------------------------------
(* datetime: proleptic Gregorian ordinals, as datetime - timedelta uses    *)

IsLeap(y) == y % 4 = 0 /\ (y % 100 # 0 \/ y % 400 = 0)

DaysInMonthTable == <<31, 28, 31, 30, 31, 30, 31, 31, 30, 31, 30, 31>>

DaysInMonth(y, m) == IF m = 2 /\ IsLeap(y) THEN 29 ELSE DaysInMonthTable[m]

DaysBeforeYear(y) ==
  LET p == y - 1 IN p * 365 + (p \div 4) - (p \div 100) + (p \div 400)

RECURSIVE DaysBeforeMonthTable(_)
DaysBeforeMonthTable(m) == IF m = 1 THEN 0 ELSE DaysBeforeMonthTable(m - 1) + DaysInMonthTable[m - 1]

DaysBeforeMonth(y, m) == DaysBeforeMonthTable(m) + (IF m > 2 /\ IsLeap(y) THEN 1 ELSE 0)

\* date.toordinal()
ToOrdinal(t) == DaysBeforeYear(t.year) + DaysBeforeMonth(t.year, t.month) + t.day

\* date.fromordinal(n), by the 400, 100, 4 and 1 year cycles; the time of
\* day is carried over
FromOrdinal(ordinal, sec) ==
  LET n0 == ordinal - 1
      di400 == DaysBeforeYear(401)
      di100 == DaysBeforeYear(101)
      di4 == DaysBeforeYear(5)
      n400 == n0 \div di400
      r400 == n0 % di400
      n100 == r400 \div di100
      r100 == r400 % di100
      n4 == r100 \div di4
      r4 == r100 % di4
      n1 == r4 \div 365
      n == r4 % 365
      y == n400 * 400 + 1 + n100 * 100 + n4 * 4 + n1
  IN  IF n1 = 4 \/ n100 = 4 THEN Timestamp(y - 1, 12, 31, sec)
      ELSE LET leap == n1 = 3 /\ (n4 # 24 \/ n100 = 3)
               guess == (n + 50) \div 32
               before(m) == DaysBeforeMonthTable(m) + (IF m > 2 /\ leap THEN 1 ELSE 0)
               m == IF before(guess) > n THEN guess - 1 ELSE guess
           IN  Timestamp(y, m, n - before(m) + 1, sec)

\* t - timedelta(days=k)
MinusDays(t, k) == FromOrdinal(ToOrdinal(t) - k, t.second)

\* a - timedelta(days=k) for a 30 day month
MinusMonth(t, k) == FromOrdinal(ToOrdinal(t) - 30 * k, t.second)

\* a <= b on timestamps
Le(a, b) ==
  \/ ToOrdinal(a) < ToOrdinal(b)
  \/ ToOrdinal(a) = ToOrdinal(b) /\ a.second <= b.second

RECURSIVE MaxBetween(_, _, _)
\* the latest timestamp of rows[lo..hi]
MaxBetween(rows, lo, hi) ==
  IF lo = hi THEN rows[lo].InvoiceDate
  ELSE LET mid == (lo + hi) \div 2
           a == MaxBetween(rows, lo, mid)
           b == MaxBetween(rows, mid + 1, hi)
       IN  IF Le(a, b) THEN b ELSE a

\* df['InvoiceDate'].max()
MaxDate(rows) == MaxBetween(rows, 1, Len(rows))

-----------------------------------------------------------------------------
(* mainApp.py: one run of the script on a query                            *)

\* the bounds of the dataset: years after 2010, and days before the last day
MaxYears == 2
Window == 63

LastMonth == <<"l","a","s","t"," ","m","o","n","t","h">>

\* "last month" in query.lower()
Mentions(q, phrase) == \E i \in 1..Len(q) : MatchAt(lower(q), i, phrase)

\* \w
IsWordChar(c) == InTable(c, UpperLetters) \/ InTable(c, LowerLetters) \/ InTable(c, Digits) \/ c = "_"

\* where r"in (\w+)" matches, ignoring case
InMatches(q) ==
  {i \in 1..Len(q) : /\ MatchAt(lower(q), i, <<"i","n"," ">>)
                     /\ i + 3 <= Len(q)
                     /\ IsWordChar(q[i + 3])}

\* re.search(r"in (\w+)", query, re.IGNORECASE): group 1 of the leftmost
\* match, the longest run of word characters
CountryPattern(q) ==
  IF InMatches(q) = {} THEN None
  ELSE LET i == CHOOSE x \in InMatches(q) : \A y \in InMatches(q) : x <= y
           ends == {j \in (i + 3)..Len(q) : \A k \in (i + 3)..j : IsWordChar(q[k])}
           e == CHOOSE x \in ends : \A y \in ends : x >= y
       IN  Some(SubSeq(q, i + 3, e))

\* datetime(max_date.year, max_date.month, 1)
FirstDayOfMonth(t) == Timestamp(t.year, t.month, 1, 0)

\* the range computed with a 30 day step back
LastMonthRange30(max_date) ==
  LET last_month_end == MinusMonth(FirstDayOfMonth(max_date), 1)
  IN  <<FirstDayOfMonth(last_month_end), last_month_end>>

\* (last_month_start, last_month_end)
LastMonthRange(max_date) ==
  LET last_month_end == MinusDays(FirstDayOfMonth(max_date), 1)
  IN  <<FirstDayOfMonth(last_month_end), last_month_end>>

\* df[df['Country'].str.lower() == country_filter.lower()]
ApplyCountry(rows, country) ==
  IF country = None THEN rows
  ELSE SelectSeq(rows, LAMBDA r : lower(r.Country) = lower(country[1]))

\* df[(df['InvoiceDate'] >= start_date) & (df['InvoiceDate'] <= end_date)]
ApplyDate(rows, range) ==
  IF range = None THEN rows
  ELSE SelectSeq(rows, LAMBDA r : Le(range[1][1], r.InvoiceDate) /\ Le(r.InvoiceDate, range[1][2]))

Sentences ==
  { <<>>,
    <<"l","a","s","t"," ","m","o","n","t","h">>,
    <<"L","a","s","t"," ","M","o","n","t","h"," ","i","n"," ","U","K">>,
    <<"s","a","l","e","s"," ","i","n"," ","F","r","a","n","c","e">>,
    <<"t","o","t","a","l"," ","s","a","l","e","s">>,
    <<"L","A","S","T"," ","M","O","N","T","H"," ","i","n"," ","f","r","a","n","c","e">>,
    <<"B","e","r","l","i","n"," ","s","a","l","e","s"," ","l","a","s","t"," ","m","o","n","t","h">>,
    <<"S","h","o","w"," ","m","e"," ","l","a","s","t"," ","m","o","n","t","h","'","s"," ","s","a","l","e","s"," ","i","n"," ","U","K">> }

France == <<"F","r","a","n","c","e">>

Countries == <<UK, France>>

TimesOfDay == <<0, 43200, 86399>>

\* the last days of the dataset
LastDays ==
  {Timestamp(y, m, d, 0) : y \in (2011..(2010 + MaxYears)) \cup {2000, 2100}, m \in 1..12, d \in {1, 9, 28}}

\* a dataset with a row in each country at each time of day, on every day
\* from Window days before its last day
DatedData(last) ==
  LET days == Window + 1
      per == Len(TimesOfDay) * Len(Countries)
  IN  [i \in 1..(days * per) |->
         LET day == (i - 1) \div per
             time == TimesOfDay[(((i - 1) % per) \div Len(Countries)) + 1]
             country == Countries[((i - 1) % Len(Countries)) + 1]
         IN  Row(FromOrdinal(ToOrdinal(last) - Window + day, time), <<"A">>, country, 1, 5)]

InitQuery ==
  /\ pc = "start"
  /\ month_name = <<>>
  /\ month_number = None
  /\ df \in {DatedData(last) : last \in LastDays}
  /\ prod_query = <<>>
  /\ selected_months = <<>>
  /\ query \in Sentences
  /\ date_filter = None
  /\ country_filter = None
  /\ df_filtered = Returned(NoData)
  /\ sales_data = <<>>

\* the script with a query entered: both extractions, then both filters
RunQuery ==
  /\ pc = "start"
  /\ query # <<>>
  /\ pc' = "done"
  /\ country_filter' = CountryPattern(query)
  /\ date_filter' = IF Mentions(query, LastMonth) THEN Some(LastMonthRange(MaxDate(df))) ELSE None
  /\ df_filtered' = Returned(ApplyDate(ApplyCountry(df, country_filter'), date_filter'))
  /\ UNCHANGED <<month_name, month_number, df, prod_query, selected_months, query, sales_data>>

\* the script with no query entered: nothing is computed
NoQuery ==
  /\ pc = "start"
  /\ query = <<>>
  /\ pc' = "done"
  /\ UNCHANGED <<month_name, month_number, df, prod_query, selected_months, query,
                 date_filter, country_filter, df_filtered, sales_data>>

SpecQuery == InitQuery /\ [][RunQuery \/ NoQuery]_vars

\* the month before the month of t, as calendars number it
C6_Previous(t) == IF t.month = 1 THEN <<t.year - 1, 12>> ELSE <<t.year, t.month - 1>>

\* thirty days hath September, April, June and November
C6_LastDay(y, m) ==
  IF m \in {4, 6, 9, 11} THEN 30
  ELSE IF m # 2 THEN 31
  ELSE IF y % 400 = 0 \/ (y % 4 = 0 /\ y % 100 # 0) THEN 29 ELSE 28

\* C6: a sentence that mentions "last month" gives the range (first day,
\* last day) of the calendar month before the month of the latest invoice
\* date, December of the year before when that month is January.
C6_LastMonthRange ==
  pc = "done" /\ Mentions(query, LastMonth) =>
     LET p == C6_Previous(MaxDate(df))
     IN  date_filter = Some(<<Timestamp(p[1], p[2], 1, 0),
                              Timestamp(p[1], p[2], C6_LastDay(p[1], p[2]), 0)>>)

\* the latest invoice is in January and the range is December of the year before
C6_Witness ==
  /\ pc = "done"
  /\ Mentions(query, LastMonth)
  /\ MaxDate(df).month = 1
  /\ date_filter = Some(<<Timestamp(MaxDate(df).year - 1, 12, 1, 0),
                          Timestamp(MaxDate(df).year - 1, 12, 31, 0)>>)

\* C9 as stated: with the "last month" filter applied, the view holds exactly
\* the rows (of the country asked for) dated in the month before the month of
\* the latest invoice date, at any time of any of its days.
C9_WholeMonthKept ==
  pc = "done" /\ date_filter # None =>
     LET p == C6_Previous(MaxDate(df))
     IN  df_filtered.rows =
            SelectSeq(ApplyCountry(df, country_filter),
                      LAMBDA r : r.InvoiceDate.year = p[1] /\ r.InvoiceDate.month = p[2])

-----------------------------------------------------------------------------
(* Test.py: one run of the script with "Sales per Month" selected          *)

\* rows in a dataset, and months picked in the multiselect
MaxRows == 4
MaxSelected == 2

\* [month_name_to_number(m) for m in selected_months
\*    if month_name_to_number(m) is not None]
SelectedMonthNumbers(months) ==
  LET known == SelectSeq(months, LAMBDA m : month_name_to_number(m) # None)
  IN  [i \in 1..Len(known) |-> month_name_to_number(known[i])[1]]

\* df_filtered[df_filtered["Month"].isin(selected_month_numbers)], applied
\* when the list is not empty
ApplyMonths(rows, numbers) ==
  IF numbers = <<>> THEN rows
  ELSE SelectSeq(rows, LAMBDA r : \E i \in 1..Len(numbers) : r.InvoiceDate.month = numbers[i])

RECURSIVE SumTotalPrice(_)
\* ["TotalPrice"].sum()
SumTotalPrice(rows) ==
  IF rows = <<>> THEN 0 ELSE Head(rows).TotalPrice + SumTotalPrice(Tail(rows))

KeyLess(a, b) == a[1] < b[1] \/ (a[1] = b[1] /\ a[2] < b[2])

RECURSIVE SortedKeys(_)
\* the group keys in ascending order
SortedKeys(keys) ==
  IF keys = {} THEN <<>>
  ELSE LET k == CHOOSE x \in keys : \A y \in keys \ {x} : KeyLess(x, y)
       IN  <<k>> \o SortedKeys(keys \ {k})

\* "<month name> - <year>"
Period(year, month) == <<calendar_month_name[month], year>>

\* a grouping by the month alone, the year taken from the group's first row
GroupByMonthOnly(rows) ==
  LET months == {rows[i].InvoiceDate.month : i \in 1..Len(rows)}
      first(m) == SelectSeq(rows, LAMBDA r : r.InvoiceDate.month = m)[1].InvoiceDate.year
      keys == SortedKeys({<<first(m), m>> : m \in months})
  IN  [i \in 1..Len(keys) |->
         [Year |-> keys[i][1], Month |-> keys[i][2],
          TotalPrice |-> SumTotalPrice(SelectSeq(rows, LAMBDA r : r.InvoiceDate.month = keys[i][2])),
          Period |-> Period(keys[i][1], keys[i][2])]]

\* groupby(["Year", "Month"], as_index=False)["TotalPrice"].sum() and the
\* Period column
GroupByYearMonth(rows) ==
  LET keys == SortedKeys({<<rows[i].InvoiceDate.year, rows[i].InvoiceDate.month>> : i \in 1..Len(rows)})
  IN  [i \in 1..Len(keys) |->
         [Year |-> keys[i][1], Month |-> keys[i][2],
          TotalPrice |-> SumTotalPrice(SelectSeq(rows,
               LAMBDA r : r.InvoiceDate.year = keys[i][1] /\ r.InvoiceDate.month = keys[i][2])),
          Period |-> Period(keys[i][1], keys[i][2])]]

MonthlyRows ==
  { Row(Timestamp(2010, 12, 1, 30000), <<"A">>, UK, 1, 5),
    Row(Timestamp(2011, 1, 4, 30000), <<"A">>, UK, 2, 5),
    Row(Timestamp(2011, 12, 9, 30000), <<"A">>, UK, 3, 5) }

MonthlyData == UNION {[1..n -> MonthlyRows] : n \in 0..MaxRows}

\* the selections of the multiselect: at most MaxSelected of the twelve names
Selections ==
  LET picks == {S \in SUBSET (1..12) : Cardinality(S) <= MaxSelected}
      Order(S) == SortedKeys({<<0, m>> : m \in S})
  IN  {[i \in 1..Cardinality(S) |-> calendar_month_name[Order(S)[i][2]]] : S \in picks}

InitMonthly ==
  /\ pc = "start"
  /\ month_name = <<>>
  /\ month_number = None
  /\ df \in MonthlyData
  /\ prod_query = <<>>
  /\ selected_months \in Selections
  /\ query = <<>>
  /\ date_filter = None
  /\ country_filter = None
  /\ df_filtered = Returned(NoData)
  /\ sales_data = <<>>

\* the "Sales per Month" branch: the month filter, then the grouped sums
SalesPerMonth ==
  /\ pc = "start"
  /\ pc' = "done"
  /\ df_filtered' = Returned(ApplyMonths(df, SelectedMonthNumbers(selected_months)))
  /\ sales_data' = GroupByYearMonth(df_filtered'.rows)
  /\ UNCHANGED <<month_name, month_number, df, prod_query, selected_months, query,
                 date_filter, country_filter>>

SpecMonthly == InitMonthly /\ [][SalesPerMonth]_vars

\* the indexes of the groups with the key of row r
C7_GroupsOf(r) ==
  {k \in 1..Len(sales_data) : /\ sales_data[k].Year = r.InvoiceDate.year
                              /\ sales_data[k].Month = r.InvoiceDate.month}

RECURSIVE C7_SumOfSums(_)
C7_SumOfSums(groups) ==
  IF groups = <<>> THEN 0 ELSE Head(groups).TotalPrice + C7_SumOfSums(Tail(groups))

====
